---- MODULE Spec2Model ----
(***************************************************************************)
(* The document revision chain and the reference-counted tags of           *)
(* PersistModel (src/model/persist.js), as driven by the document routes   *)
(* (src/unnamed/part_000).                                                 *)
(*                                                                         *)
(* A call of addDocument / updateDocument / archiveDocument is a fixed     *)
(* sequence of store statements.  `Step' executes the next statement of a  *)
(* call against the rows the call's transaction sees; `Run' executes a     *)
(* call to its end.  Specification Spec runs calls one after another;      *)
(* specification SpecRace lets two calls interleave statement by           *)
(* statement.                                                              *)
(***************************************************************************)
EXTENDS Integers, Sequences, FiniteSets, TLC

\* Bounds of the model: the revision ids the store hands out to calls made one
\* after another (1..MaxDocs), and to overlapping calls (1..MaxRaceDocs).
MaxDocs == 2
MaxRaceDocs == 3

\* Bounds of the calls made on the tags directly: the ids the store hands out
\* to tags (1..MaxTags), and the count a tag is raised to (1..MaxCount).
MaxTags == 2
MaxCount == 2

------------------------------------------------------------------------------
(* Rows *)

\* The rows of table User the model starts with; authorId 2 names no user.
Users == {1}
AuthorIds == {1, 2}

\* findOne / findById resolved with null.
NoDoc == [id |-> 0, historyId |-> 0, isArchived |-> FALSE, title |-> "",
          content |-> "", authorId |-> 0, updatedAt |-> 0]
NoTag == [id |-> 0, title |-> "", count |-> 0, color |-> ""]

EmptyDb == [docs |-> {}, tags |-> {}, links |-> {}]

\* Counters the store never rolls back: the two AUTO_INCREMENT keys, and the
\* number of uuid() values drawn for historyId.
FirstCtr == [nextDoc |-> 1, nextTag |-> 1, nextHist |-> 1]

------------------------------------------------------------------------------
(* Helpers of persist.js *)

\* notBlank(text): a string whose trim() is not ''.
notBlank(text) == text \notin {"", " "}

\* The `set' hooks of title, content and color: a blank value is stored as ''.
Setter(text) == IF notBlank(text) THEN text ELSE ""

\* validate: { notEmpty } of Document.title, Document.content and Tag.title.
notEmpty(text) == text # ""

\* validate: { is: /^#[0-9a-fA-F]{6}$/ } of Tag.color.
ValidColors == {"#111111", "#222222"}
isColor(text) == text \in ValidColors

------------------------------------------------------------------------------
(* Reads *)

\* Document.findOne({ where: { id: id, isArchived: false } })
DocFindOne(db, id) ==
    LET hit == {d \in db.docs : d.id = id /\ d.isArchived = FALSE}
    IN  IF hit = {} THEN NoDoc ELSE CHOOSE d \in hit : TRUE

\* Document.findById(id): getDocument, whatever isArchived is.
getDocument(db, id) ==
    LET hit == {d \in db.docs : d.id = id}
    IN  IF hit = {} THEN NoDoc ELSE CHOOSE d \in hit : TRUE

\* Tag.findOne({ where: { title: title } })
TagFindOne(db, title) ==
    LET hit == {t \in db.tags : t.title = title}
    IN  IF hit = {} THEN NoTag ELSE CHOOSE t \in hit : TRUE

\* Tag.findById(id)
TagFindById(db, id) ==
    LET hit == {t \in db.tags : t.id = id}
    IN  IF hit = {} THEN NoTag ELSE CHOOSE t \in hit : TRUE

\* A finite set of rows as a sequence in ascending id order.
RECURSIVE ById(_)
ById(rows) ==
    IF rows = {} THEN <<>>
    ELSE LET r == CHOOSE x \in rows : \A y \in rows : x.id <= y.id
         IN  <<r>> \o ById(rows \ {r})

\* document.getTags(): the Tag rows joined to the revision through
\* DocumentToTag.
getTags(db, docId) ==
    ById({t \in db.tags : <<docId, t.id>> \in db.links})

\* Rows in descending updatedAt order: order: [['updatedAt', 'DESC']].
RECURSIVE ByUpdatedAtDesc(_)
ByUpdatedAtDesc(rows) ==
    IF rows = {} THEN <<>>
    ELSE LET r == CHOOSE x \in rows : \A y \in rows : y.updatedAt <= x.updatedAt
         IN  <<r>> \o ByUpdatedAtDesc(rows \ {r})

\* limit: the first n rows.
Limit(rows, n) == SubSeq(rows, 1, IF n < Len(rows) THEN n ELSE Len(rows))

searchHeadsOnly(db, historyId, pagination) ==
    LET hit == {d \in db.docs : /\ d.id > pagination[1]
                                /\ d.historyId = historyId
                                /\ ~d.isArchived}
    IN  Limit(ByUpdatedAtDesc(hit), pagination[2])

\* searchDocumentByHistoryId(historyId, pagination): pagination is
\* <<cursor, limit>>.  The code throws document_not_exist on an empty result,
\* which is the empty sequence here.
searchDocumentByHistoryId(db, historyId, pagination) ==
    LET hit == {d \in db.docs : /\ d.id > pagination[1]
                                /\ d.historyId = historyId}
    IN  Limit(ByUpdatedAtDesc(hit), pagination[2])

------------------------------------------------------------------------------
(* Writes: one record per statement sent to the store *)

ArchiveRowsDestroy(docs, id, at) == {d \in docs : d.id # id}

\* document.update({ isArchived: true }) on the rows of Document.
ArchiveRows(docs, id, at) ==
    {IF d.id = id THEN [d EXCEPT !.isArchived = TRUE, !.updatedAt = at] ELSE d
       : d \in docs}

ApplyStmt(db, w) ==
    CASE w.k = "insDoc" ->
           [db EXCEPT !.docs = @ \cup {w.row}]
      [] w.k = "archive" ->
           [db EXCEPT !.docs = ArchiveRows(@, w.id, w.at)]
      [] w.k = "setAuthor" ->
           [db EXCEPT !.docs =
               {IF d.id = w.id
                  THEN [d EXCEPT !.authorId = w.authorId, !.updatedAt = w.at]
                  ELSE d : d \in @}]
      [] w.k = "insTag" ->
           [db EXCEPT !.tags = @ \cup {w.row}]
      [] w.k = "updTag" ->
           [db EXCEPT !.tags =
               {IF t.id = w.id
                  THEN [t EXCEPT !.count = w.count, !.color = w.color]
                  ELSE t : t \in @}]
      [] w.k = "decTag" ->
           [db EXCEPT !.tags =
               {IF t.id = w.id THEN [t EXCEPT !.count = w.count] ELSE t
                  : t \in @}]
      [] w.k = "delTag" ->
           [db EXCEPT !.tags = {t \in @ : t.id # w.id},
                      !.links = {l \in @ : l[2] # w.id}]
      [] w.k = "insLinks" ->
           [db EXCEPT !.links = @ \cup {<<w.id, w.tagIds[j]>>
                                          : j \in 1..Len(w.tagIds)}]

RECURSIVE ApplyAll(_, _)
ApplyAll(db, ws) ==
    IF ws = <<>> THEN db ELSE ApplyAll(ApplyStmt(db, Head(ws)), Tail(ws))

\* new Date() at a write: later than every timestamp written so far.
Now(db) ==
    LET S == {d.updatedAt : d \in db.docs}
    IN  IF S = {} THEN 1 ELSE 1 + (CHOOSE x \in S : \A y \in S : y <= x)

------------------------------------------------------------------------------
(* A call: its arguments, its position and what its callbacks hold *)

\* op: "create" (addDocument), "update" (updateDocument), "archive"
\* (archiveDocument); id and doc are the arguments.  doc.historyId = 0 stands
\* for a document object without the key historyId, doc.tagsGiven = FALSE for
\* one whose tags are undefined.  op "attach" is increaseOrAddTag(tag) with
\* doc.tags = <<tag>>, op "detach" is decreaseOrRemoveTag(id).
NewCall(op, id, doc) ==
    [op |-> op, id |-> id, doc |-> doc,
     pc |-> CASE op = "create" -> "create"
              [] op = "attach" -> "incFind"
              [] op = "detach" -> "decFind"
              [] OTHER -> "findDoc",
     found |-> NoDoc,       \* foundDocument
     rev |-> 0,             \* id of createdDocument
     tagsQ |->              \* the rows document.getTags() resolved with
        IF op = "detach" THEN <<[NoTag EXCEPT !.id = id]>> ELSE <<>>,
     founds |-> <<>>,       \* what each mapper's find resolved with
     insts |-> <<>>,        \* ids of the tags the mappers resolved with
     i |-> 1,
     err |-> "none"]

Reject(l, c, kind) ==
    [l |-> [l EXCEPT !.pc = "failed", !.err = kind], w |-> <<>>, c |-> c]

\* The end of archiveDocumentInstance (of decreaseOrRemoveTag, when called
\* on its own): archiveDocument is done, updateDocument
\* copies foundDocument.historyId into the caller's document and goes on with
\* addDocument.
AfterArchiveNoCopy(l) ==
    IF l.op \in {"archive", "detach"} THEN [l EXCEPT !.pc = "done"]
    ELSE [l EXCEPT !.pc = "create", !.founds = <<>>, !.i = 1]

AfterArchive(l) ==
    IF l.op \in {"archive", "detach"} THEN [l EXCEPT !.pc = "done"]
    ELSE [l EXCEPT !.doc.historyId = l.found.historyId,
                   !.pc = "create", !.founds = <<>>, !.i = 1]

\* updateDocument / archiveDocument: findOne({ id, isArchived: false }).
StepFindDocAnyState(l, v, c) ==
    LET d == getDocument(v, l.id)
    IN  IF d = NoDoc THEN Reject(l, c, "DocumentNotFound")
        ELSE [l |-> [l EXCEPT !.found = d, !.pc = "archive"],
              w |-> <<>>, c |-> c]

StepFindDoc(l, v, c) ==
    LET d == DocFindOne(v, l.id)
    IN  IF d = NoDoc THEN Reject(l, c, "DocumentNotFound")
        ELSE [l |-> [l EXCEPT !.found = d, !.pc = "archive"],
              w |-> <<>>, c |-> c]

StepArchiveOnly(l, v, c, now) ==
    [l |-> AfterArchive(l),
     w |-> <<[k |-> "archive", id |-> l.found.id, at |-> now]>>,
     c |-> c]

\* archiveDocumentInstance: document.update({ isArchived: true }).
StepArchive(l, v, c, now) ==
    [l |-> [l EXCEPT !.pc = "getTags"],
     w |-> <<[k |-> "archive", id |-> l.found.id, at |-> now]>>,
     c |-> c]

\* archiveDocumentInstance: document.getTags().
StepGetTags(l, v, c) ==
    LET ts == getTags(v, l.found.id)
    IN  [l |-> IF ts = <<>> THEN AfterArchive(l)
               ELSE [l EXCEPT !.tagsQ = ts, !.founds = <<>>, !.i = 1,
                              !.pc = "decFind"],
         w |-> <<>>, c |-> c]

\* decreaseOrRemoveTag, first half: Tag.findById(id).  The mappers of
\* .map() are all started before any of them is resumed, so every find is
\* sent before the first write.
StepDecFind(l, v, c) ==
    LET t == TagFindById(v, l.tagsQ[l.i].id)
        last == l.i = Len(l.tagsQ)
    IN  [l |-> [l EXCEPT !.founds = Append(@, t),
                         !.i = IF last THEN 1 ELSE @ + 1,
                         !.pc = IF last THEN "decWrite" ELSE @],
         w |-> <<>>, c |-> c]

\* decreaseOrRemoveTag, second half: throw, destroy or update.
StepDecWriteByTwo(l, v, c) ==
    LET t == l.founds[l.i]
        last == l.i = Len(l.founds)
        next == IF last THEN AfterArchive(l) ELSE [l EXCEPT !.i = @ + 1]
    IN  IF t = NoTag THEN Reject(l, c, "TagNotFound")
        ELSE IF t.count = 1
          THEN [l |-> next, w |-> <<[k |-> "delTag", id |-> t.id]>>, c |-> c]
          ELSE [l |-> next,
                w |-> <<[k |-> "decTag", id |-> t.id, count |-> t.count - 2]>>,
                c |-> c]

StepDecWriteKeepZero(l, v, c) ==
    LET t == l.founds[l.i]
        last == l.i = Len(l.founds)
        next == IF last THEN AfterArchive(l) ELSE [l EXCEPT !.i = @ + 1]
    IN  IF t = NoTag THEN Reject(l, c, "TagNotFound")
        ELSE [l |-> next,
              w |-> <<[k |-> "decTag", id |-> t.id, count |-> t.count - 1]>>,
              c |-> c]

StepDecWriteSwallow(l, v, c) ==
    LET t == l.founds[l.i]
        last == l.i = Len(l.founds)
        next == IF last THEN AfterArchive(l) ELSE [l EXCEPT !.i = @ + 1]
    IN  IF t = NoTag THEN [l |-> next, w |-> <<>>, c |-> c]
        ELSE IF t.count = 1
          THEN [l |-> next, w |-> <<[k |-> "delTag", id |-> t.id]>>, c |-> c]
          ELSE [l |-> next,
                w |-> <<[k |-> "decTag", id |-> t.id, count |-> t.count - 1]>>,
                c |-> c]

StepDecWrite(l, v, c) ==
    LET t == l.founds[l.i]
        last == l.i = Len(l.founds)
        next == IF last THEN AfterArchive(l) ELSE [l EXCEPT !.i = @ + 1]
    IN  IF t = NoTag THEN Reject(l, c, "TagNotFound")
        ELSE IF t.count = 1
          THEN [l |-> next, w |-> <<[k |-> "delTag", id |-> t.id]>>, c |-> c]
          ELSE [l |-> next,
                w |-> <<[k |-> "decTag", id |-> t.id, count |-> t.count - 1]>>,
                c |-> c]

\* addDocument: Document.create(sanitize(document, ['historyId', 'title',
\* 'content'])).  A key the document lacks takes the column's default:
\* historyId a fresh uuid(), isArchived false.
StepCreate(l, v, c, now) ==
    LET title == Setter(l.doc.title)
        content == Setter(l.doc.content)
        fresh == l.doc.historyId = 0
        row == [id |-> c.nextDoc,
                historyId |-> IF fresh THEN c.nextHist ELSE l.doc.historyId,
                isArchived |-> FALSE, title |-> title, content |-> content,
                authorId |-> 0, updatedAt |-> now]
    IN  IF ~(notEmpty(title) /\ notEmpty(content))
          THEN Reject(l, c, "ValidationFailed")
          ELSE [l |-> [l EXCEPT !.rev = row.id, !.pc = "setAuthor"],
                w |-> <<[k |-> "insDoc", row |-> row]>>,
                c |-> [c EXCEPT !.nextDoc = @ + 1,
                                !.nextHist = IF fresh THEN @ + 1 ELSE @]]

StepSetAuthorSwallow(l, v, c, now) ==
    IF l.doc.authorId \notin Users
      THEN [l |-> [l EXCEPT !.pc = "incFind", !.founds = <<>>, !.insts = <<>>,
                            !.i = 1, !.err = "ForeignKey"],
            w |-> <<>>, c |-> c]
    ELSE [l |-> [l EXCEPT !.pc = "incFind", !.founds = <<>>, !.insts = <<>>,
                          !.i = 1],
          w |-> <<[k |-> "setAuthor", id |-> l.rev,
                   authorId |-> l.doc.authorId, at |-> now]>>,
          c |-> c]

\* addDocument: createdDocument.setAuthor(document.authorId).
StepSetAuthor(l, v, c, now) ==
    IF l.doc.authorId \notin Users THEN Reject(l, c, "ForeignKey")
    ELSE [l |-> [l EXCEPT !.pc = "incFind", !.founds = <<>>, !.insts = <<>>,
                          !.i = 1],
          w |-> <<[k |-> "setAuthor", id |-> l.rev,
                   authorId |-> l.doc.authorId, at |-> now]>>,
          c |-> c]

StepIncFindStale(l, v, c) ==
    IF ~l.doc.tagsGiven THEN Reject(l, c, "TypeError")
    ELSE IF l.doc.tags = <<>>
      THEN [l |-> [l EXCEPT !.pc = "setTags"], w |-> <<>>, c |-> c]
      ELSE LET held == {j \in 1..Len(l.tagsQ) :
                          l.tagsQ[j].title = l.doc.tags[l.i].title}
               t == IF held # {} THEN l.tagsQ[CHOOSE j \in held : TRUE]
                    ELSE TagFindOne(v, l.doc.tags[l.i].title)
               last == l.i = Len(l.doc.tags)
           IN  [l |-> [l EXCEPT !.founds = Append(@, t),
                                !.i = IF last THEN 1 ELSE @ + 1,
                                !.pc = IF last THEN "incWrite" ELSE @],
                w |-> <<>>, c |-> c]

\* increaseOrAddTag, first half: Tag.findOne({ where: { title } }).
\* Promise.map(undefined) rejects; the mappers of Promise.map are all
\* started before any of them is resumed.
StepIncFind(l, v, c) ==
    IF ~l.doc.tagsGiven THEN Reject(l, c, "TypeError")
    ELSE IF l.doc.tags = <<>>
      THEN [l |-> [l EXCEPT !.pc = "setTags"], w |-> <<>>, c |-> c]
      ELSE LET t == TagFindOne(v, l.doc.tags[l.i].title)
               last == l.i = Len(l.doc.tags)
           IN  [l |-> [l EXCEPT !.founds = Append(@, t),
                                !.i = IF last THEN 1 ELSE @ + 1,
                                !.pc = IF last THEN "incWrite" ELSE @],
                w |-> <<>>, c |-> c]

StepIncWriteKeepColor(l, v, c) ==
    LET tag == l.doc.tags[l.i]
        t == l.founds[l.i]
        last == l.i = Len(l.doc.tags)
        then == IF l.op = "attach" THEN "done" ELSE "setTags"
        next(tid) == [l EXCEPT !.insts = Append(@, tid),
                               !.i = IF last THEN 1 ELSE @ + 1,
                               !.pc = IF last THEN then ELSE @]
        title == Setter(tag.title)
        color == Setter(tag.color)
    IN  IF t # NoTag
          THEN IF ~isColor(color) THEN Reject(l, c, "ValidationFailed")
               ELSE [l |-> next(t.id),
                     w |-> <<[k |-> "updTag", id |-> t.id,
                              count |-> t.count + 1, color |-> t.color]>>,
                     c |-> c]
          ELSE IF ~(notEmpty(title) /\ isColor(color))
                 THEN Reject(l, c, "ValidationFailed")
               ELSE IF TagFindOne(v, title) # NoTag
                 THEN Reject(l, c, "Conflict")
               ELSE [l |-> next(c.nextTag),
                     w |-> <<[k |-> "insTag",
                              row |-> [id |-> c.nextTag, title |-> title,
                                       count |-> 1, color |-> color]]>>,
                     c |-> [c EXCEPT !.nextTag = @ + 1]]

\* increaseOrAddTag, second half: foundTag.update({ count + 1, color }) or
\* Tag.create({ title, color }).
StepIncWrite(l, v, c) ==
    LET tag == l.doc.tags[l.i]
        t == l.founds[l.i]
        last == l.i = Len(l.doc.tags)
        then == IF l.op = "attach" THEN "done" ELSE "setTags"
        next(tid) == [l EXCEPT !.insts = Append(@, tid),
                               !.i = IF last THEN 1 ELSE @ + 1,
                               !.pc = IF last THEN then ELSE @]
        title == Setter(tag.title)
        color == Setter(tag.color)
    IN  IF t # NoTag
          THEN IF ~isColor(color) THEN Reject(l, c, "ValidationFailed")
               ELSE [l |-> next(t.id),
                     w |-> <<[k |-> "updTag", id |-> t.id,
                              count |-> t.count + 1, color |-> color]>>,
                     c |-> c]
          ELSE IF ~(notEmpty(title) /\ isColor(color))
                 THEN Reject(l, c, "ValidationFailed")
               ELSE IF TagFindOne(v, title) # NoTag
                 THEN Reject(l, c, "Conflict")
               ELSE [l |-> next(c.nextTag),
                     w |-> <<[k |-> "insTag",
                              row |-> [id |-> c.nextTag, title |-> title,
                                       count |-> 1, color |-> color]]>>,
                     c |-> [c EXCEPT !.nextTag = @ + 1]]

\* addDocument: createdDocument.setTags(tags): one DocumentToTag row per tag
\* instance.  (documentId, tagId) is the table's key and tagId references a
\* Tag row.
StepSetTags(l, v, c) ==
    LET ids == l.insts
        n == Len(ids)
    IN  IF \E a, b \in 1..n : a # b /\ ids[a] = ids[b]
          THEN Reject(l, c, "Conflict")
        ELSE IF \E a \in 1..n : TagFindById(v, ids[a]) = NoTag
          THEN Reject(l, c, "ForeignKey")
        ELSE [l |-> [l EXCEPT !.pc = "done"],
              w |-> IF n = 0 THEN <<>>
                    ELSE <<[k |-> "insLinks", id |-> l.rev, tagIds |-> ids]>>,
              c |-> c]

\* The next statement of call l, against the rows v its transaction sees:
\* the call's new position, the statements written, the counters.
Step(l, v, c, now) ==
    CASE l.pc = "findDoc"   -> StepFindDoc(l, v, c)
      [] l.pc = "archive"   -> StepArchive(l, v, c, now)
      [] l.pc = "getTags"   -> StepGetTags(l, v, c)
      [] l.pc = "decFind"   -> StepDecFind(l, v, c)
      [] l.pc = "decWrite"  -> StepDecWrite(l, v, c)
      [] l.pc = "create"    -> StepCreate(l, v, c, now)
      [] l.pc = "setAuthor" -> StepSetAuthor(l, v, c, now)
      [] l.pc = "incFind"   -> StepIncFind(l, v, c)
      [] l.pc = "incWrite"  -> StepIncWrite(l, v, c)
      [] l.pc = "setTags"   -> StepSetTags(l, v, c)

Ended(l) == l.pc \in {"done", "failed"}

\* A call run to its end with no other call in between.
RECURSIVE Run(_, _, _)
Run(l, db, c) ==
    IF Ended(l) THEN [l |-> l, db |-> db, c |-> c]
    ELSE LET r == Step(l, db, c, Now(db))
         IN  Run(r.l, ApplyAll(db, r.w), r.c)

\* The transaction every call runs in: a call that rejects leaves the rows
\* as they were before it.
RunInTransaction(db, r) == IF r.l.pc = "done" THEN r.db ELSE db

------------------------------------------------------------------------------
(* State *)

VARIABLES
    store,   \* the committed rows: [docs, tags, links]
    ctr,     \* the store's counters
    ret,     \* what the last call resolved or rejected with
    call,    \* per concurrent caller: its call, where it stands, what it holds
    log      \* per concurrent caller: the statements of its open transaction

vars == <<store, ctr, ret, call, log>>

\* The callers whose calls overlap in SpecRace.
Procs == {1, 2}

\* An element of a tags array that passes the validators of Tag.
WellFormed(tag) == notEmpty(Setter(tag.title)) /\ isColor(Setter(tag.color))

\* The titles a tags array of well-formed elements names more than once.
DupTitles(tags) ==
    IF \E j \in 1..Len(tags) : ~WellFormed(tags[j]) THEN {}
    ELSE {tags[j].title : j \in {a \in 1..Len(tags) :
                \E b \in 1..Len(tags) : a # b /\ tags[a].title = tags[b].title}}

\* What an update that resolved took over from the head it archived: for
\* each title both in the head's tags and in the new tags array, the count
\* the head's tag had and the color the array gives.
Carried(l) ==
    IF l.op = "update" /\ l.pc = "done"
      THEN {[title |-> l.tagsQ[j].title, count |-> l.tagsQ[j].count,
             color |-> l.doc.tags[k].color]
              : <<j, k>> \in {x \in (1..Len(l.tagsQ)) \X (1..Len(l.doc.tags)) :
                                l.tagsQ[x[1]].title = l.doc.tags[x[2]].title}}
      ELSE {}

\* No tag argument.
NoArg == [title |-> "", color |-> ""]

\* What the caller's callback receives: the error kind or "ok", and the id of
\* the revision the call resolved with (create and update).  threw is the
\* first error a statement of the call rejected with, "none" if none did;
\* tag, dups and carried say what the call was given.
Result(l) ==
    [op |-> l.op, id |-> l.id,
     status |-> IF l.pc = "done" THEN "ok" ELSE l.err,
     rev |-> IF l.pc = "done" /\ l.op \in {"create", "update"}
               THEN l.rev ELSE 0,
     tag |-> IF l.op = "attach" THEN l.doc.tags[1] ELSE NoArg,
     threw |-> l.err,
     dups |-> IF l.op \in {"create", "update"} /\ l.doc.tagsGiven
                THEN DupTitles(l.doc.tags) ELSE {},
     carried |-> Carried(l)]

NoResult == [op |-> "none", id |-> 0, status |-> "none", rev |-> 0,
             tag |-> NoArg, threw |-> "none", dups |-> {}, carried |-> {}]

------------------------------------------------------------------------------
(* Inputs *)

TagTitles == {"red", "blue"}

\* Elements of a tags array: every valid title and color, one color the
\* pattern rejects, one blank title.
TagInputs ==
    [title : TagTitles, color : ValidColors]
      \cup {[title |-> "red", color |-> "red"],
            [title |-> " ", color |-> "#111111"]}

TagLists ==
    {<<>>} \cup {<<a>> : a \in TagInputs}
           \cup {<<a, b>> : a \in TagInputs, b \in TagInputs}

GoodDoc == [title |-> "a", content |-> "x", authorId |-> 1,
            tagsGiven |-> TRUE,
            tags |-> <<[title |-> "red", color |-> "#111111"]>>,
            historyId |-> 0]

\* The documents a caller passes: well-formed ones with every tag list, and
\* one for each way the fields outside tags can be rejected.
DocInputs ==
    {[GoodDoc EXCEPT !.title = t, !.tags = ts]
        : t \in {"a"}, ts \in TagLists}
      \cup {[GoodDoc EXCEPT !.title = " "],
            [GoodDoc EXCEPT !.content = ""],
            [GoodDoc EXCEPT !.authorId = 2],
            [GoodDoc EXCEPT !.tagsGiven = FALSE, !.tags = <<>>]}

\* The historyId key of a document passed to addDocument: absent (0), or the
\* historyId of a stored revision.
HistoryInputs == {0} \cup {d.historyId : d \in store.docs}

DocIds == 1..MaxDocs

------------------------------------------------------------------------------
(* Calls, one after another *)

\* A caller that has made no call.
Idle == [NewCall("none", 0, GoodDoc) EXCEPT !.pc = "idle"]

Init ==
    /\ store = EmptyDb
    /\ ctr = FirstCtr
    /\ ret = NoResult
    /\ call = [p \in Procs |-> Idle]
    /\ log = [p \in Procs |-> <<>>]

Finish(r) ==
    /\ store' = RunInTransaction(store, r)
    /\ ctr' = r.c
    /\ ret' = Result(r.l)
    /\ UNCHANGED <<call, log>>

\* POST /document -> addDocument(document)
AddDocument(doc) ==
    /\ ctr.nextDoc <= MaxDocs
    /\ Finish(Run(NewCall("create", 0, doc), store, ctr))

\* PUT /document/:id -> updateDocument(id, document)
UpdateDocument(id, doc) ==
    /\ ctr.nextDoc <= MaxDocs
    /\ Finish(Run(NewCall("update", id, doc), store, ctr))

\* DELETE /document/:id -> archiveDocument(id)
ArchiveDocument(id) ==
    Finish(Run(NewCall("archive", id, GoodDoc), store, ctr))

Next ==
    \/ \E doc \in DocInputs, h \in HistoryInputs :
          AddDocument([doc EXCEPT !.historyId = h])
    \/ \E id \in DocIds, doc \in DocInputs : UpdateDocument(id, doc)
    \/ \E id \in DocIds : ArchiveDocument(id)

Spec == Init /\ [][Next]_vars

------------------------------------------------------------------------------
(* Calls on documents and, directly, on tags *)

TagIds == 1..MaxTags

\* The documents passed by the callers of SpecTag.
TagDocs ==
    {[GoodDoc EXCEPT !.tags = ts]
        : ts \in {<<[title |-> "red", color |-> "#111111"]>>}}

\* The tags passed to increaseOrAddTag: well-formed ones of both titles, one
\* color the pattern rejects, one blank title.
TagArgs ==
    {[title |-> "red", color |-> "#111111"],
     [title |-> "red", color |-> "#222222"],
     [title |-> "blue", color |-> "#111111"],
     [title |-> "red", color |-> "red"],
     [title |-> " ", color |-> "#111111"]}

\* increaseOrAddTag(tag)
IncreaseOrAddTag(tag) ==
    /\ TagFindOne(store, tag.title) # NoTag \/ ctr.nextTag <= MaxTags
    /\ TagFindOne(store, tag.title).count < MaxCount
    /\ Finish(Run(NewCall("attach", 0, [GoodDoc EXCEPT !.tags = <<tag>>]),
                  store, ctr))

\* decreaseOrRemoveTag(id)
DecreaseOrRemoveTag(id) ==
    Finish(Run(NewCall("detach", id, GoodDoc), store, ctr))

NextTag ==
    \/ \E doc \in TagDocs : AddDocument(doc)
    \/ \E id \in DocIds, doc \in TagDocs : UpdateDocument(id, doc)
    \/ \E id \in DocIds : ArchiveDocument(id)
    \/ \E tag \in TagArgs : IncreaseOrAddTag(tag)
    \/ \E id \in TagIds : DecreaseOrRemoveTag(id)

SpecTag == Init /\ [][NextTag]_vars

------------------------------------------------------------------------------
(* Two calls at once *)

\* Each call runs in a transaction of its own on a READ COMMITTED store: a
\* read sees the committed rows and the transaction's own statements; a write
\* waits while the other open transaction holds the row; the statements take
\* effect for others when the transaction commits.

\* The rows a caller's transaction sees.
View(p) == ApplyAll(store, log[p])

\* The rows a statement locks until its transaction ends.
WriteLocks(w) ==
    CASE w.k = "insDoc"    -> {<<"doc", w.row.id>>}
      [] w.k = "archive"   -> {<<"doc", w.id>>}
      [] w.k = "setAuthor" -> {<<"doc", w.id>>}
      [] w.k = "insTag"    -> {<<"tag", w.row.id>>, <<"title", w.row.title>>}
      [] w.k = "updTag"    -> {<<"tag", w.id>>}
      [] w.k = "decTag"    -> {<<"tag", w.id>>}
      [] w.k = "delTag"    -> {<<"tag", w.id>>}
      [] w.k = "insLinks"  -> {}

\* The rows a statement needs to stay as they are: the Tag rows a
\* DocumentToTag row references.
ReadLocks(w) ==
    IF w.k = "insLinks"
      THEN {<<"tag", w.tagIds[j]>> : j \in 1..Len(w.tagIds)}
      ELSE {}

HeldWrite(ws) == UNION {WriteLocks(ws[j]) : j \in 1..Len(ws)}
HeldRead(ws) == UNION {ReadLocks(ws[j]) : j \in 1..Len(ws)}

\* Statements ws of caller p have to wait for the other caller's transaction.
Blocked(p, ws) ==
    \E q \in Procs \ {p} :
        \/ HeldWrite(ws) \cap (HeldWrite(log[q]) \cup HeldRead(log[q])) # {}
        \/ HeldRead(ws) \cap HeldWrite(log[q]) # {}

\* new Date(): later than every timestamp written so far, committed or not.
NowRace ==
    LET all == [docs |-> UNION ({store.docs} \cup {View(p).docs : p \in Procs}),
                tags |-> {}, links |-> {}]
    IN  Now(all)

InFlight(p) == call[p].pc \notin {"idle", "resolved", "rejected"}

\* Calls under way that have yet to insert their revision.
Pending ==
    Cardinality({p \in Procs : /\ InFlight(p) /\ ~Ended(call[p])
                               /\ call[p].op \in {"create", "update"}
                               /\ call[p].pc \in {"findDoc", "archive", "getTags",
                                                  "decFind", "decWrite", "create"}})

\* The documents passed by the callers of SpecRace.
RaceDocs ==
    {[GoodDoc EXCEPT !.tags = ts]
        : ts \in {<<>>, <<[title |-> "red", color |-> "#111111"]>>}}

\* A call made while no other is under way, to fill the store.
RaceSetup(doc) ==
    /\ \A p \in Procs : call[p].pc = "idle"
    /\ AddDocument(doc)

\* A caller makes its call.
Begin(p, op, id, doc) ==
    /\ call[p].pc = "idle"
    /\ op = "archive" \/ ctr.nextDoc + Pending <= MaxRaceDocs
    /\ call' = [call EXCEPT ![p] = NewCall(op, id, doc)]
    /\ UNCHANGED <<store, ctr, ret, log>>

\* The next statement of a caller's call.
Statement(p) ==
    /\ InFlight(p) /\ ~Ended(call[p])
    /\ LET r == Step(call[p], View(p), ctr, NowRace)
       IN  /\ ~Blocked(p, r.w)
           /\ call' = [call EXCEPT ![p] = r.l]
           /\ log' = [log EXCEPT ![p] = @ \o r.w]
           /\ ctr' = r.c
    /\ UNCHANGED <<store, ret>>

\* The call's promise settles: the transaction commits or rolls back and the
\* caller's callback runs.
Settle(p) ==
    /\ Ended(call[p])
    /\ store' = RunInTransaction(store, [l |-> call[p], db |-> View(p)])
    /\ ret' = Result(call[p])
    /\ call' = [call EXCEPT ![p].pc =
                   IF call[p].pc = "done" THEN "resolved" ELSE "rejected"]
    /\ log' = [log EXCEPT ![p] = <<>>]
    /\ UNCHANGED ctr

NextRace ==
    \/ \E doc \in RaceDocs : RaceSetup(doc)
    \/ \E p \in Procs, doc \in RaceDocs : Begin(p, "create", 0, doc)
    \/ \E p \in Procs, id \in DocIds, doc \in RaceDocs :
          Begin(p, "update", id, doc)
    \/ \E p \in Procs, id \in DocIds : Begin(p, "archive", id, GoodDoc)
    \/ \E p \in Procs : Statement(p)
    \/ \E p \in Procs : Settle(p)

SpecRace == Init /\ [][NextRace]_vars

------------------------------------------------------------------------------
(* Properties of calls made one after another *)

HistoryIds(db) == {d.historyId : d \in db.docs}

\* The non-archived revisions of a chain.
Heads(db, h) == {d \in db.docs : d.historyId = h /\ ~d.isArchived}

\* The non-archived revisions whose tag set contains tag t.
Referencing(db, t) ==
    {d \in db.docs : ~d.isArchived /\ <<d.id, t.id>> \in db.links}

\* C1: after any sequence of completed create, update and archive calls,
\* every historyId has at most one revision with isArchived = false.
SingleHead ==
    \A h \in HistoryIds(store) : Cardinality(Heads(store, h)) <= 1

\* C2: every existing tag's count is the number of non-archived revisions
\* whose tag set contains it.
TagCountCorrect ==
    \A t \in store.tags : t.count = Cardinality(Referencing(store, t))

\* A tag that an archived revision still carries, counted once for the one
\* non-archived revision that carries it too.
TagCountWitness ==
    \E t \in store.tags :
        /\ t.count = 1
        /\ \E d \in store.docs : d.isArchived /\ <<d.id, t.id>> \in store.links
        /\ \E d \in store.docs : ~d.isArchived /\ <<d.id, t.id>> \in store.links

\* C6: an update of the one head of chain H leaves exactly one non-archived
\* revision of H, and an update that fails leaves every row as it was.
UpdateNeverStrands ==
    [][ret'.op = "update" =>
         LET head == DocFindOne(store, ret'.id)
         IN  (head # NoDoc /\ Heads(store, head.historyId) = {head}) =>
                /\ Cardinality(Heads(store', head.historyId)) = 1
                /\ (ret'.status # "ok" =>
                      /\ store' = store
                      /\ Heads(store', head.historyId) = {head})]_vars

\* An update that was rejected after its head had been archived and the
\* head's tags detached: the head and its tag are as before.
UpdateRolledBackWitness ==
    /\ ret.op = "update"
    /\ ret.status = "ValidationFailed"
    /\ LET head == DocFindOne(store, ret.id)
       IN  /\ head # NoDoc
           /\ \E t \in store.tags : Referencing(store, t) = {head}

\* C7: a create in which any statement fails rejects, and leaves no new
\* revision, no new tag and no changed tag.
CreateAllOrNothing ==
    [][(ret'.op = "create" /\ ret'.threw # "none") =>
          /\ ret'.status = ret'.threw
          /\ store' = store]_vars

\* A create rejected with a unique-key error, that is after its revision and
\* a tag had been written (the ids were drawn), beside rows of earlier calls.
CreateRolledBackWitness ==
    /\ ret.op = "create"
    /\ ret.status = "Conflict"
    /\ ctr.nextDoc > 1 + Cardinality(store.docs)
    /\ store.docs # {} /\ store.tags # {}

\* C8: update and archive of an id that names no non-archived revision fail
\* with NotFound and create, change or delete no row.
NotFoundChangesNothing ==
    [][(ret'.op \in {"update", "archive"} /\ DocFindOne(store, ret'.id) = NoDoc)
          => (ret'.status = "DocumentNotFound" /\ store' = store)]_vars

\* An update of a revision that exists and is archived was rejected.
NotFoundWitness ==
    /\ ret.op = "update"
    /\ ret.status = "DocumentNotFound"
    /\ getDocument(store, ret.id) # NoDoc

\* Cursors and limits of a search.
Paginations == (0..MaxDocs) \X (0..MaxDocs)

InResult(rows, d) == \E j \in 1..Len(rows) : rows[j] = d

\* C9: after a successful update(id) of a head of chain H the new revision
\* has historyId H and is not archived, revision id is archived, and a
\* history search for H whose cursor is below both ids and whose limit fits
\* returns both.
ChainContinuity ==
    [][(ret'.op = "update" /\ ret'.status = "ok") =>
         LET h == getDocument(store, ret'.id).historyId
             old == getDocument(store', ret'.id)
             new == getDocument(store', ret'.rev)
         IN  /\ new # NoDoc /\ new.historyId = h /\ ~new.isArchived
             /\ old.historyId = h /\ old.isArchived
             /\ \A pg \in Paginations :
                  (/\ pg[1] < old.id /\ pg[1] < new.id
                   /\ pg[2] >= Cardinality({d \in store'.docs :
                                   d.id > pg[1] /\ d.historyId = h}))
                  => LET rows == searchDocumentByHistoryId(store', h, pg)
                     IN  InResult(rows, old) /\ InResult(rows, new)]_vars

\* A successful update whose chain a history search returns in two rows.
ChainContinuityWitness ==
    /\ ret.op = "update"
    /\ ret.status = "ok"
    /\ Len(searchDocumentByHistoryId(
           store, getDocument(store, ret.rev).historyId, <<0, 2>>)) = 2

\* A chain with revisions and no head.
Closed(db, h) == h \in HistoryIds(db) /\ Heads(db, h) = {}

\* C10: a successful archive of the head of chain H leaves H without a
\* non-archived revision; every revision stays fetchable by id and by history
\* search; and no later call gives a closed chain a non-archived revision.
ClosedIsTerminal ==
    [][/\ (ret'.op = "archive" /\ ret'.status = "ok") =>
            LET head == DocFindOne(store, ret'.id)
            IN  Heads(store, head.historyId) = {head}
                  => Closed(store', head.historyId)
       /\ \A d \in store.docs :
            /\ getDocument(store', d.id) # NoDoc
            /\ \E e \in store'.docs : e.id = d.id /\ InResult(
                 searchDocumentByHistoryId(store', d.historyId, <<0, MaxDocs>>), e)
       /\ \A h \in HistoryIds(store) :
            Closed(store, h) => Closed(store', h)]_vars

\* C11: a create that succeeds gives its revision a historyId that no
\* revision had before the call, whatever keys the document carries.
CreateAssignsFreshHistory ==
    [][(ret'.op = "create" /\ ret'.status = "ok") =>
          getDocument(store', ret'.rev).historyId \notin HistoryIds(store)]_vars

\* The tags joined to revision id.
TagsOf(db, id) == {t \in db.tags : <<id, t.id>> \in db.links}

\* C15: a successful archive(id) sets isArchived on revision id and on no
\* other; each tag of that revision loses exactly 1 from its count, or its
\* row if the count was 1; every other revision and tag is as before.
ArchiveEffect ==
    [][(ret'.op = "archive" /\ ret'.status = "ok") =>
         LET old == getDocument(store, ret'.id)
             mine == TagsOf(store, ret'.id)
         IN  /\ getDocument(store', ret'.id) =
                   [old EXCEPT !.isArchived = TRUE,
                               !.updatedAt = getDocument(store', ret'.id).updatedAt]
             /\ {d \in store'.docs : d.id # ret'.id}
                   = {d \in store.docs : d.id # ret'.id}
             /\ \A t \in mine :
                   IF t.count = 1 THEN TagFindById(store', t.id) = NoTag
                   ELSE TagFindById(store', t.id) = [t EXCEPT !.count = @ - 1]
             /\ \A t \in store.tags \ mine : t \in store'.tags
             /\ store'.tags \subseteq
                   (store.tags \ mine) \cup {[t EXCEPT !.count = @ - 1] : t \in mine}]_vars

\* The scenario of two revisions, the first tagged red and blue, the second
\* red, after the first was archived: red is left with count 1 on the second
\* revision, blue is gone.
ArchiveEffectWitness ==
    /\ ret.op = "archive" /\ ret.status = "ok" /\ ret.id = 1
    /\ ctr.nextTag = 3
    /\ \E t \in store.tags :
          /\ store.tags = {t}
          /\ t.title = "red" /\ t.count = 1
          /\ <<2, t.id>> \in store.links

\* C19: no call deletes a revision or changes the title, content or
\* historyId of one, and isArchived never goes from true back to false.
RevisionsImmutable ==
    [][\A d \in store.docs :
          LET e == getDocument(store', d.id)
          IN  /\ e # NoDoc
              /\ Cardinality({x \in store'.docs : x.id = d.id}) = 1
              /\ e.title = d.title /\ e.content = d.content
              /\ e.historyId = d.historyId
              /\ (d.isArchived => e.isArchived)]_vars

\* An update went through: its old revision is stored archived, with the
\* title and content it had, beside the new revision.
RevisionsImmutableWitness ==
    /\ ret.op = "update" /\ ret.status = "ok"
    /\ LET old == getDocument(store, ret.id)
       IN  /\ old.isArchived /\ old.title = "a" /\ old.content = "x"
           /\ getDocument(store, ret.rev) \notin {NoDoc, old}

\* The count of the tag titled t, 0 when there is none.
CountOf(db, t) == TagFindOne(db, t).count

\* C17: a create or update whose tags array names a title more than once
\* completes without error and raises that tag's count by exactly 1 (for an
\* update of a head that carried the tag: after the head's detach).
OneIncrementPerRevision ==
    [][\A t \in ret'.dups :
          LET held == /\ ret'.op = "update"
                      /\ \E x \in TagsOf(store, ret'.id) : x.title = t
              base == IF held THEN CountOf(store, t) - 1 ELSE CountOf(store, t)
          IN  /\ ret'.status = "ok"
              /\ CountOf(store', t) = base + 1
              /\ Cardinality({x \in TagsOf(store', ret'.rev) : x.title = t}) = 1]_vars

\* C20: after an update, a tag title that is both in the old head's tags and
\* in the new tags array has the count it had before the update and the
\* color the update supplied; it is attached to the new revision.
TagCarriedAcrossUpdate ==
    (ret.op = "update" /\ ret.status = "ok") =>
        \A x \in ret.carried :
            LET t == TagFindOne(store, x.title)
            IN  /\ t # NoTag
                /\ t.count = x.count
                /\ t.color = x.color
                /\ t \in TagsOf(store, ret.rev)

\* An update carried over a tag that another attach had raised to count 2:
\* the tag is the row it was, with count 2.
TagCarriedWitness ==
    /\ ret.op = "update" /\ ret.status = "ok"
    /\ \E x \in ret.carried :
          /\ x.count = 2
          /\ TagFindOne(store, x.title).count = 2
          /\ TagFindOne(store, x.title).id = 1

------------------------------------------------------------------------------
(* Properties of the calls on tags *)

\* C12: no tag row has a count below 1, whatever calls were made; a detach
\* of a tag with count 1 deletes the row.
TagCountPositive ==
    \A t \in store.tags : t.count >= 1

\* A detach of a tag with count 1 went through: its row is gone, beside a
\* tag that stays.
TagRemovedWitness ==
    /\ ret.op = "detach" /\ ret.status = "ok"
    /\ TagFindById(store, ret.id) = NoTag
    /\ store.tags # {}

\* C13: an attach that resolves leaves an existing tag of that title the
\* same row with count + 1 and the supplied color, or else adds exactly one
\* tag with that title, count 1 and the supplied color; no other tag, no
\* revision and no link changes.
AttachResult ==
    [][(ret'.op = "attach" /\ ret'.status = "ok") =>
         LET old == TagFindOne(store, ret'.tag.title)
             new == TagFindOne(store', ret'.tag.title)
         IN  /\ IF old # NoTag
                  THEN /\ new = [old EXCEPT !.count = @ + 1,
                                            !.color = ret'.tag.color]
                       /\ store'.tags = (store.tags \ {old}) \cup {new}
                  ELSE /\ new.title = ret'.tag.title
                       /\ new.count = 1
                       /\ new.color = ret'.tag.color
                       /\ \A t \in store.tags : t.id # new.id
                       /\ store'.tags = store.tags \cup {new}
                       /\ Cardinality(store'.tags) = Cardinality(store.tags) + 1
             /\ store'.docs = store.docs
             /\ store'.links = store.links]_vars

\* An attach of an existing tag went through with another color, beside a
\* second tag.
AttachResultWitness ==
    /\ ret.op = "attach" /\ ret.status = "ok"
    /\ ret.tag.color = "#222222"
    /\ TagFindOne(store, ret.tag.title).count = 2
    /\ Cardinality(store.tags) = 2

\* C14: a detach of an id no tag has fails with NotFound and changes
\* nothing; a detach of a tag with count 1 deletes its row; any other detach
\* lowers the count by exactly 1 and leaves title and color.
DetachResult ==
    [][ret'.op = "detach" =>
         LET old == TagFindById(store, ret'.id)
         IN  /\ store'.docs = store.docs
             /\ IF old = NoTag
                  THEN ret'.status = "TagNotFound" /\ store' = store
                  ELSE /\ ret'.status = "ok"
                       /\ IF old.count = 1
                            THEN store'.tags = store.tags \ {old}
                            ELSE store'.tags = (store.tags \ {old})
                                    \cup {[old EXCEPT !.count = @ - 1]}]_vars

\* A detach of an id that no tag has was rejected, with a tag stored.
DetachNotFoundWitness ==
    /\ ret.op = "detach" /\ ret.status = "TagNotFound"
    /\ store.tags # {}

------------------------------------------------------------------------------
(* Properties of two calls at once *)

Settled(p) == call[p].pc \in {"resolved", "rejected"}
Resolved(p) == call[p].pc = "resolved"

\* Two settled writers, at least one an update, on the same revision id.
WritersOnOneHead(p, q) ==
    /\ p # q /\ Settled(p) /\ Settled(q)
    /\ {call[p].op, call[q].op} \subseteq {"update", "archive"}
    /\ "update" \in {call[p].op, call[q].op}
    /\ call[p].id = call[q].id

\* C3: two updates, or an update and an archive, of the same head never leave
\* two non-archived revisions of its chain, and no tag of the old head is
\* detached by both.
WritersSerialized ==
    \A p, q \in Procs :
        WritersOnOneHead(p, q) =>
            /\ \A h \in HistoryIds(store) : Cardinality(Heads(store, h)) <= 1
            /\ (Resolved(p) /\ Resolved(q)) =>
                  \A j \in 1..Len(call[p].tagsQ), k \in 1..Len(call[q].tagsQ) :
                      call[p].tagsQ[j].id # call[q].tagsQ[k].id

\* Two settled creates, each attaching the one tag title t.
AttachersOf(p, q, t) ==
    /\ p # q /\ Settled(p) /\ Settled(q)
    /\ \A r \in {p, q} :
         /\ call[r].op = "create"
         /\ Len(call[r].doc.tags) = 1 /\ call[r].doc.tags[1].title = t
         /\ Len(call[r].founds) = 1

\* C4: two attaches of an existing tag with count c leave it with count
\* c + 2, however their finds and updates interleave (c is the smaller of
\* the counts the two finds returned).
NoLostIncrement ==
    \A p, q \in Procs, t \in TagTitles :
        (/\ AttachersOf(p, q, t)
         /\ Resolved(p) /\ Resolved(q)
         /\ call[p].founds[1] # NoTag /\ call[q].founds[1] # NoTag)
        => LET cp == call[p].founds[1].count
               cq == call[q].founds[1].count
               c == IF cp < cq THEN cp ELSE cq
           IN  TagFindOne(store, t).count = c + 2

\* C5: two first-time attaches of one title whose lookups both found no tag
\* both succeed, and leave exactly one tag of that title, with count 2.
FirstAttachesBothSucceed ==
    \A p, q \in Procs, t \in TagTitles :
        (/\ AttachersOf(p, q, t)
         /\ call[p].founds[1] = NoTag /\ call[q].founds[1] = NoTag)
        => /\ Resolved(p) /\ Resolved(q)
           /\ Cardinality({x \in store.tags : x.title = t}) = 1
           /\ TagFindOne(store, t).count = 2

\* An archive that detached tag t when its find saw count 1, and a settled
\* create or update of another revision whose attach of t found the tag with
\* count 1 too: the two overlapped.
AttachRacesDetach(p, q, t) ==
    /\ p # q /\ Resolved(p) /\ Settled(q)
    /\ call[p].op = "archive"
    /\ call[q].op \in {"create", "update"} /\ call[q].id # call[p].id
    /\ Len(call[p].founds) = 1
    /\ call[p].founds[1].title = t /\ call[p].founds[1].count = 1
    /\ Len(call[q].doc.tags) = 1 /\ call[q].doc.tags[1].title = t
    /\ Len(call[q].founds) = 1
    /\ call[q].founds[1].title = t /\ call[q].founds[1].count = 1

\* C18: when an attach of title t overlaps the detach of tag t from the
\* archive of its only head, the attach goes through and a tag titled t is
\* left with count 1, joined to the new revision.
AttachRacingDetachKeepsCount ==
    \A p, q \in Procs, t \in TagTitles :
        AttachRacesDetach(p, q, t) =>
            /\ Resolved(q)
            /\ \E x \in store.tags :
                  /\ x.title = t /\ x.count = 1
                  /\ <<call[q].rev, x.id>> \in store.links
                  /\ Referencing(store, x) = {getDocument(store, call[q].rev)}

------------------------------------------------------------------------------
(* GET /document/:id/diff and the diff of two contents *)

\* Bound of the model: the length of a content.
MaxLen == 3

\* A content is a sequence of characters; "\n" ends a line.
Chars == {"a", "b", "\n"}
Texts == UNION {[1..n -> Chars] : n \in 0..MaxLen}

\* The index of the first "\n" of a non-empty text, its length if it has none.
LineEnd(text) ==
    LET nl == {j \in 1..Len(text) : text[j] = "\n"}
    IN  IF nl = {} THEN Len(text) ELSE CHOOSE j \in nl : \A k \in nl : j <= k

RECURSIVE SplitBlocksDropDelimiter(_)
SplitBlocksDropDelimiter(text) ==
    IF text = <<>> THEN <<>>
    ELSE LET n == LineEnd(text)
             m == IF text[n] = "\n" THEN n - 1 ELSE n
         IN  <<SubSeq(text, 1, m)>>
               \o SplitBlocksDropDelimiter(SubSeq(text, n + 1, Len(text)))

\* The blocks of a text: its lines, each with the "\n" that ends it.
RECURSIVE SplitBlocks(_)
SplitBlocks(text) ==
    IF text = <<>> THEN <<>>
    ELSE LET n == LineEnd(text)
         IN  <<SubSeq(text, 1, n)>>
               \o SplitBlocks(SubSeq(text, n + 1, Len(text)))

\* The length of a longest common subsequence of two block sequences.
RECURSIVE LcsLen(_, _)
LcsLen(a, b) ==
    IF a = <<>> \/ b = <<>> THEN 0
    ELSE IF Head(a) = Head(b) THEN 1 + LcsLen(Tail(a), Tail(b))
    ELSE LET x == LcsLen(Tail(a), b)
             y == LcsLen(a, Tail(b))
         IN  IF x >= y THEN x ELSE y

\* The segments of two block sequences in the merge order of a longest
\* common subsequence: a block of both is unchanged, a block of a alone is
\* removed, a block of b alone is added.
RECURSIVE DiffSeq(_, _)
DiffSeq(a, b) ==
    IF a = <<>> /\ b = <<>> THEN <<>>
    ELSE IF a = <<>>
      THEN <<[kind |-> "added", text |-> Head(b)]>> \o DiffSeq(a, Tail(b))
    ELSE IF b = <<>>
      THEN <<[kind |-> "removed", text |-> Head(a)]>> \o DiffSeq(Tail(a), b)
    ELSE IF Head(a) = Head(b)
      THEN <<[kind |-> "unchanged", text |-> Head(a)]>>
             \o DiffSeq(Tail(a), Tail(b))
    ELSE IF LcsLen(Tail(a), b) >= LcsLen(a, Tail(b))
      THEN <<[kind |-> "removed", text |-> Head(a)]>> \o DiffSeq(Tail(a), b)
    ELSE <<[kind |-> "added", text |-> Head(b)]>> \o DiffSeq(a, Tail(b))

\* diffBlocks(textA, textB)
diffBlocks(textA, textB) == DiffSeq(SplitBlocks(textA), SplitBlocks(textB))

\* A request for the diff of two contents, before its response.
DiffRequest(thisContent, thatContent) ==
    [op |-> "diff", status |-> "pending",
     thisContent |-> thisContent, thatContent |-> thatContent, diff |-> <<>>]

InitDiff ==
    /\ store = EmptyDb
    /\ ctr = FirstCtr
    /\ ret \in {DiffRequest(x, y) : x \in Texts, y \in Texts}
    /\ call = [p \in Procs |-> Idle]
    /\ log = [p \in Procs |-> <<>>]

\* GET /document/:id/diff: callback(null, diffBlocks(thisContent, thatContent))
GetDiff ==
    /\ ret.status = "pending"
    /\ ret' = [ret EXCEPT !.status = "ok",
                          !.diff = diffBlocks(ret.thisContent, ret.thatContent)]
    /\ UNCHANGED <<store, ctr, call, log>>

NextDiff == GetDiff

SpecDiff == InitDiff /\ [][NextDiff]_vars

\* The texts of the segments of a diff, one after another.
RECURSIVE Reconstructed(_)
Reconstructed(diff) ==
    IF diff = <<>> THEN <<>> ELSE Head(diff).text \o Reconstructed(Tail(diff))

\* C16: the diff of a text with itself has only unchanged segments, and
\* their texts one after another are the text.
DiffIdentity ==
    (ret.status = "ok" /\ ret.thisContent = ret.thatContent) =>
        /\ \A j \in 1..Len(ret.diff) : ret.diff[j].kind = "unchanged"
        /\ Reconstructed(ret.diff) = ret.thisContent

\* The diff of a text of more than one line with itself.
DiffIdentityWitness ==
    /\ ret.status = "ok"
    /\ ret.thisContent = ret.thatContent
    /\ Len(ret.diff) >= 2

====
